---- MODULE Spec2Model ----
(***************************************************************************)
(* Model of the pyarduboy audio drivers (drivers/audio/pyaudio.py,         *)
(* alsa.py, pygame_mixer.py).                                              *)
(*                                                                         *)
(* A driver instance is one of three backends.  The PyAudio driver owns a  *)
(* deque of encoded frames that play_samples fills and the stream callback *)
(* drains under one lock; every lock-protected section is one atomic step. *)
(* Bytes are integers 0..255; a frame is a sequence of bytes; the deque is *)
(* a sequence of frames, front first.                                      *)
(*                                                                         *)
(* The emulation core is modelled as a source of int16 samples whose i-th  *)
(* sample is Signal(i): its two little-endian bytes are 2i-1 and 2i, so    *)
(* the k-th byte ever produced has the value k and a zero byte can only be *)
(* silence.  The core alternates blocks of two samples and of one, so the  *)
(* queue holds frames of different sizes.                                  *)
(***************************************************************************)
EXTENDS Integers, Sequences, FiniteSets

VARIABLES
    backend,         \* which driver class the instance is
    channels,        \* self.channels
    use_24bit,       \* self.use_24bit
    sample_rate,     \* self._sample_rate
    running,         \* self._running
    frame_count,     \* self._frame_count
    total_samples,   \* self._total_samples
    pyaudio,         \* PyAudio: self._pyaudio, "None" | "live" | "terminated"
    stream,          \* PyAudio: self._stream, "None" | "active" | "closed"
    audio_buffer,    \* PyAudio: self._audio_buffer (deque of bytes objects)
    underrun_count,  \* PyAudio: self._underrun_count
    played,          \* PyAudio: every byte the callback has returned, in order
    pulls,           \* PyAudio: how many times the callback has run
    opens,           \* how many times init has gone to the backend
    lost,            \* PyAudio: a queued frame was evicted or cleared
    pcm,             \* ALSA: self.pcm, "None" | "open"
    write_errors,    \* ALSA: self._write_errors
    initialized,     \* pygame: self._initialized
    channel,         \* pygame: self._channel, "None" | "Channel0"
    mixer,           \* pygame: pygame.mixer.get_init(), <<>> | <<freq, channels>>
    sink_writes,     \* ALSA, pygame: blocks handed to the backend
    last_call,       \* the call that ran last, where calls are recorded
    offered,         \* the block the core offers, where it is an input
    volume,          \* ALSA: self.volume, in units of 1 / VolumeUnit
    written,         \* ALSA: the bytes of the last pcm.write call
    pc,              \* threads: where the producer, the callback and the
                     \* control thread stand in their code
    buffer_lock,     \* PyAudio: self._buffer_lock, "free" or its holder
    play_local,      \* play_samples in flight: its local variables
    cb_local,        \* _audio_callback in flight: its local variables
    ctl_local,       \* init or close in flight: what the backend will do
    device,          \* PortAudio: the stream is "running" its callback, or
                     \* "stopped"
    quiet            \* close has returned and init has not been called since

cfg_vars == <<backend, use_24bit, offered>>

\* the PyAudio driver's own state, the ALSA driver's, the pygame driver's
pa_vars == <<pyaudio, stream, audio_buffer, underrun_count, played, pulls, lost>>
alsa_vars == <<pcm, write_errors, volume, written>>
pg_vars == <<initialized, channel, mixer>>

\* everything but the record of the last call
state_vars == <<backend, channels, use_24bit, sample_rate, running,
                frame_count, total_samples, pyaudio, stream, audio_buffer,
                underrun_count, played, pulls, opens, lost, pcm, write_errors,
                initialized, channel, mixer, sink_writes, offered, volume,
                written>>

\* the threads of the fine-grained specification
race_vars == <<pc, buffer_lock, play_local, cb_local, ctl_local, device,
               quiet>>

vars == <<state_vars, last_call, race_vars>>

----------------------------------------------------------------------------
(* Bounds of the model *)

MaxPushes == 17       \* accepted play_samples calls in a run
MaxFrameCount == 1    \* largest frame_count the backend asks for
MaxPulls == 2         \* callback invocations in a run
MaxOpens == 1         \* init calls that go to the backend
MaxLifePushes == 2    \* the same three, where the calls are recorded
MaxLifePulls == 1
MaxLifeOpens == 2
MaxConvPushes == 1    \* play_samples calls where the block is an input
MaxRacePushes == 1    \* and where the threads interleave
MaxRacePulls == 1
MaxRaceOpens == 1

(* Program constants *)

max_buffer_items == 15
DefaultRate == 44100

ConstructorRates == {0}
AlsaConstructorRates == {48000}
InitRates == {0, 50000}
\* get_init() of a mixer that is not set up (None)
NoMixer == <<>>

MixerStates == {NoMixer, <<22050, 1>>}
ChannelCounts == {1, 2}
Volumes == {1, 2}
AlsaWrites == {"ok", "full", "error"}
FrameCounts == 0..MaxFrameCount
RaceFrameCounts == {0, 1}

----------------------------------------------------------------------------
(* Sequence helpers *)

RECURSIVE Flatten(_)
Flatten(q) == IF q = <<>> THEN <<>> ELSE Head(q) \o Flatten(Tail(q))

Zeros(n) == [i \in 1..n |-> 0]

Take(s, n) == SubSeq(s, 1, IF n < Len(s) THEN n ELSE Len(s))
Drop(s, n) == SubSeq(s, n + 1, Len(s))

----------------------------------------------------------------------------
(* The emulation core's output and its encoding *)

Signal(i) == (2 * i) * 256 + (2 * i - 1)

SourceBlock(first, len) == [k \in 1..len |-> Signal(first + k - 1)]

\* the size, in samples, of the k-th block the core emits: 2, 1, 2, 1, ...
BlockLen(k) == 1 + (k % 2)

\* the block the core hands to the next accepted play_samples call
NextBlock == SourceBlock(total_samples + 1, BlockLen(frame_count + 1))

\* numpy int16.tobytes(): two's complement, little-endian
Int16Bytes(s) ==
    LET u == IF s < 0 THEN s + 65536 ELSE s
    IN  <<u % 256, u \div 256>>

RECURSIVE tobytes(_)
tobytes(samples) ==
    IF samples = <<>> THEN <<>>
    ELSE Int16Bytes(Head(samples)) \o tobytes(Tail(samples))

----------------------------------------------------------------------------
(* Sample blocks and their conversion.  A block is a one-dimensional array:
   a dtype and its samples.  An int16 sample is an integer; a float32 sample
   is counted in units of 1 / FloatUnit, so that 3 stands for 1.5, or, in a
   block of dtype "float32 2^-23", in units of 1 / FineUnit = 2^-23; "object"
   is an array numpy cannot convert to numbers.  The float arithmetic of the
   ALSA driver is carried out on exact fractions num / den: for the sample
   values and volumes used here the float32 products are either exact or
   differ from the fraction by less than its distance to the next integer,
   so the truncation gives the same integer. *)

FloatUnit == 2
FineUnit == 8388608
VolumeUnit == 2

EmptyBlock == [dtype |-> "int16", samples |-> <<>>]
CoreBlock == [dtype |-> "int16", samples |-> NextBlock]
BadBlock == [dtype |-> "object", samples |-> <<0>>]

\* where the core's blocks are its ramp, no block is an input
NoOffer == [dtype |-> "ramp", samples |-> <<>>]

BlockKinds == {"empty", "block", "bad"}

BlockOf(kind) ==
    CASE kind = "empty" -> EmptyBlock
      [] kind = "block" -> CoreBlock
      [] kind = "bad" -> BadBlock

\* what a sample of a float32 block is counted in
UnitOf(block) ==
    IF block.dtype = "float32 2^-23" THEN FineUnit ELSE FloatUnit

\* the conversion raises: numpy cannot turn the array into numbers
Raises(block) == block.dtype = "object"

\* astype of a float to an integer type: truncation toward zero
Trunc(num, den) ==
    IF num >= 0 THEN num \div den ELSE -((-num) \div den)

\* (samples_float * k).astype(int): the integer part of num * k / den, the
\* product taken in two halves of k to stay within the checker's integers
MulDiv(n, k, d) ==
    LET r == n % d
        t == r * (k \div 4096)
    IN  (n \div d) * k + (t \div d) * 4096
            + ((t % d) * 4096 + r * (k % 4096)) \div d

Scale(f, k) ==
    IF f.num >= 0 THEN MulDiv(f.num, k, f.den) ELSE -MulDiv(-f.num, k, f.den)

\* PyAudio lines 181-184: np.asarray(samples, dtype=np.int16), a plain cast
AsInt16(block) ==
    [i \in 1..Len(block.samples) |->
        IF block.dtype = "int16" THEN block.samples[i]
        ELSE Trunc(block.samples[i], UnitOf(block))]

\* PyAudio lines 181-189: the bytes that are queued
PyAudioEncode(block) == tobytes(AsInt16(block))

\* ALSA lines 160-172: to float32 in [-1, 1], times the volume, clipped
AlsaFloat(block, vol) ==
    [i \in 1..Len(block.samples) |->
        LET x == block.samples[i]
            f == IF block.dtype = "int16"
                 THEN [num |-> x, den |-> 32768]
                 ELSE [num |-> x, den |-> UnitOf(block)]
            g == IF vol # VolumeUnit
                 THEN [num |-> f.num * vol, den |-> f.den * VolumeUnit]
                 ELSE f
        IN  IF g.num > g.den THEN [num |-> 1, den |-> 1]
            ELSE IF g.num < -g.den THEN [num |-> -1, den |-> 1]
            ELSE g]

\* ALSA lines 175-177: a one-dimensional block is mono; np.repeat(s, 2)
AlsaChannels(s, ch) ==
    IF ch = 2 THEN [i \in 1..(2 * Len(s)) |-> s[(i + 1) \div 2]] ELSE s

\* a faulty packing: the magnitude of a negative sample, not its complement
Int24BytesMagnitude(v) ==
    LET u == IF v < 0 THEN -v ELSE v
    IN  <<u % 256, (u \div 256) % 256, (u \div 65536) % 256>>

\* ALSA lines 189-196: three bytes, little-endian, sample & 0xFFFFFF
Int24Bytes(v) ==
    LET u == IF v < 0 THEN v % 16777216 ELSE v
    IN  <<u % 256, (u \div 256) % 256, (u \div 65536) % 256>>

\* ALSA lines 160-202: the bytes that are written to the device
AlsaEncode(block, vol, ch, b24) ==
    LET f == AlsaChannels(AlsaFloat(block, vol), ch)
    IN  IF b24
        THEN Flatten([i \in 1..Len(f) |-> Int24Bytes(Scale(f[i], 8388607))])
        ELSE tobytes([i \in 1..Len(f) |-> Scale(f[i], 32767)])

----------------------------------------------------------------------------
(* PyAudioDriver.play_samples: the locked enqueue *)

\* faulty variants: no bound on the queue; the new frame dropped when full
EnqueueUnbounded(q, data) == Append(q, data)

EnqueueDropNewest(q, data) ==
    IF Len(q) < max_buffer_items THEN Append(q, data) ELSE q

Enqueue(q, data) ==
    IF Len(q) < max_buffer_items
    THEN Append(q, data)
    ELSE Append(Tail(q), data)

(* PyAudioDriver._audio_callback *)

bytes_per_sample == IF use_24bit THEN 3 ELSE 2

needed_bytes(fc) == fc * channels * bytes_per_sample

\* while len(audio_data) < needed_bytes and self._audio_buffer: popleft, extend
RECURSIVE PopLoop(_, _, _)
PopLoop(data, q, n) ==
    IF Len(data) < n /\ q # <<>>
    THEN PopLoop(data \o Head(q), Tail(q), n)
    ELSE [data |-> data, q |-> q]

\* faulty variants of the locked section below: PullVariant(fill, put, cut,
\* count) with the silence padded or not, the remainder put "front", "back"
\* or "nowhere", the remainder cut at n + cut, and empty-queue underruns
\* counted or not
PullVariant(q, n, u, fill, put, cut, count) ==
    IF q # <<>>
    THEN LET r == PopLoop(<<>>, q, n)
         IN  IF Len(r.data) >= n
             THEN [result |-> SubSeq(r.data, 1, n),
                   status |-> "paContinue",
                   q |-> IF Len(r.data) > n /\ put # "nowhere"
                         THEN LET rem == SubSeq(r.data, n + cut, Len(r.data))
                              IN  IF put = "front" THEN <<rem>> \o r.q
                                  ELSE Append(r.q, rem)
                         ELSE r.q,
                   underrun |-> u]
             ELSE [result |-> r.data \o (IF fill THEN Zeros(n - Len(r.data))
                                         ELSE <<>>),
                   status |-> "paContinue",
                   q |-> r.q,
                   underrun |-> u + 1]
    ELSE [result |-> Zeros(n), status |-> "paContinue", q |-> q,
          underrun |-> IF count THEN u + 1 ELSE u]

PullNoFill(q, n, u) == PullVariant(q, n, u, FALSE, "front", 1, TRUE)
PullRemainderBack(q, n, u) == PullVariant(q, n, u, TRUE, "back", 1, TRUE)
PullRemainderOffByOne(q, n, u) == PullVariant(q, n, u, TRUE, "front", 0, TRUE)
PullDropRemainder(q, n, u) == PullVariant(q, n, u, TRUE, "nowhere", 1, TRUE)
PullNoCount(q, n, u) == PullVariant(q, n, u, TRUE, "front", 1, FALSE)

\* the whole locked section: what is returned, what is left, the counter
Pull(q, n, u) ==
    IF q # <<>>
    THEN LET r == PopLoop(<<>>, q, n)
         IN  IF Len(r.data) >= n
             THEN [result |-> SubSeq(r.data, 1, n),
                   status |-> "paContinue",
                   q |-> IF Len(r.data) > n
                         THEN <<SubSeq(r.data, n + 1, Len(r.data))>> \o r.q
                         ELSE r.q,
                   underrun |-> u]
             ELSE [result |-> r.data \o Zeros(n - Len(r.data)),
                   status |-> "paContinue",
                   q |-> r.q,
                   underrun |-> u + 1]
    ELSE [result |-> Zeros(n), status |-> "paContinue", q |-> q,
          underrun |-> u + 1]

----------------------------------------------------------------------------
(* State after construction *)

NoCall == [op |-> "none", arg |-> "none", ret |-> "None", prev |-> "none"]

NoWrite == [data |-> <<>>, calls |-> 0]

Threads == {"producer", "callback", "control"}

Construct(b) ==
    /\ backend = b
    /\ channels \in ChannelCounts
    /\ running = FALSE
    /\ frame_count = 0
    /\ total_samples = 0
    /\ pyaudio = "None"
    /\ stream = "None"
    /\ audio_buffer = <<>>
    /\ underrun_count = 0
    /\ played = <<>>
    /\ pulls = 0
    /\ opens = 0
    /\ lost = FALSE
    /\ pcm = "None"
    /\ write_errors = 0
    /\ initialized = FALSE
    /\ channel = "None"
    /\ sink_writes = 0
    /\ last_call = NoCall
    /\ written = NoWrite
    /\ pc = [t \in Threads |-> "idle"]
    /\ buffer_lock = "free"
    /\ play_local = <<>>
    /\ cb_local = <<>>
    /\ ctl_local = "none"
    /\ device = "stopped"
    /\ quiet = FALSE

\* PyAudioDriver.__init__
PyAudioConstruct ==
    /\ Construct("pyaudio")
    /\ use_24bit \in BOOLEAN
    /\ sample_rate \in ConstructorRates
    /\ mixer = NoMixer
    /\ volume = VolumeUnit

\* AlsaAudioDriver.__init__
AlsaConstruct ==
    /\ Construct("alsa")
    /\ use_24bit \in BOOLEAN
    /\ sample_rate \in AlsaConstructorRates
    /\ mixer = NoMixer
    /\ volume \in Volumes

\* PygameMixerDriver.__init__; another component may have set up the mixer
PygameConstruct ==
    /\ Construct("pygame")
    /\ use_24bit = FALSE
    /\ sample_rate \in ConstructorRates
    /\ mixer \in MixerStates
    /\ volume = VolumeUnit

Init == PyAudioConstruct /\ offered = NoOffer

----------------------------------------------------------------------------
(* PyAudioDriver *)

\* lines 116-120: the effective rate
EffectiveRate(rate) ==
    LET r == IF rate > 0 THEN rate ELSE sample_rate
    IN  IF r <= 0 THEN DefaultRate ELSE r

PyAudioInitFailures == {"none", "PyAudio", "open", "start_stream"}

\* line 113: init has nothing to do on a running driver
AlreadyRunningNever == FALSE

AlreadyRunning == running

\* init(rate); fail names the backend call that raises, "none" when none does
PyAudioInit(rate, fail) ==
    /\ backend = "pyaudio"
    /\ IF AlreadyRunning
       THEN UNCHANGED <<sample_rate, running, pyaudio, stream, opens>>
       ELSE /\ opens' = opens + 1
            /\ sample_rate' = EffectiveRate(rate)
            /\ pyaudio' = IF fail = "PyAudio" THEN pyaudio
                          ELSE IF fail = "none" THEN "live" ELSE "terminated"
            /\ stream' = IF fail \in {"PyAudio", "open"}
                         THEN (IF stream = "None" THEN "None" ELSE "closed")
                         ELSE IF fail = "start_stream" THEN "closed"
                         ELSE "active"
            /\ running' = (fail = "none")
    /\ UNCHANGED <<cfg_vars, channels, frame_count, total_samples,
                   audio_buffer, underrun_count, played, pulls, lost,
                   alsa_vars, pg_vars, sink_writes>>

\* what init returns
PyAudioInitRet(fail) ==
    IF AlreadyRunning \/ fail = "none" THEN "True" ELSE "False"

\* line 174: the call is served only by a running driver with a stream
AcceptsAnyStream == stream # "None"

Accepts == running /\ stream # "None"

\* what play_samples returns when nothing catches what the conversion or
\* the write raises
PlaySamplesRetUncaught(block, wr) ==
    IF Raises(block) \/ wr = "error" THEN "raised" ELSE "None"

\* what play_samples returns, in the three drivers: None, the handler at
\* the end of the method having absorbed whatever was raised
PlaySamplesRet(block, wr) == "None"

\* play_samples(block); a conversion that raises is absorbed and the block
\* is dropped
PyAudioPlaySamples(block) ==
    LET samples == block.samples
    IN  /\ backend = "pyaudio"
        /\ IF ~Accepts \/ Len(samples) = 0 \/ Raises(block)
           THEN UNCHANGED <<audio_buffer, frame_count, total_samples, lost>>
           ELSE /\ audio_buffer' = Enqueue(audio_buffer, PyAudioEncode(block))
                /\ lost' = (lost \/ Len(audio_buffer) >= max_buffer_items)
                /\ frame_count' = frame_count + 1
                /\ total_samples' = total_samples + Len(samples)
        /\ UNCHANGED <<cfg_vars, channels, sample_rate, running, pyaudio,
                       stream, underrun_count, played, pulls, opens,
                       alsa_vars, pg_vars, sink_writes>>

\* the backend calls _audio_callback(frame_count = fc) while the stream runs
AudioCallback(fc) ==
    LET out == Pull(audio_buffer, needed_bytes(fc), underrun_count)
    IN  /\ backend = "pyaudio"
        /\ stream = "active"
        /\ pulls' = pulls + 1
        /\ audio_buffer' = out.q
        /\ underrun_count' = out.underrun
        /\ played' = played \o out.result
        /\ UNCHANGED <<cfg_vars, channels, sample_rate, running, pyaudio,
                       stream, frame_count, total_samples, opens, lost,
                       alsa_vars, pg_vars, sink_writes>>

\* a faulty close that lets what stop_stream raises escape
PyAudioCloseUnguarded(fail) ==
    /\ backend = "pyaudio"
    /\ running' = FALSE
    /\ stream' = IF fail /\ stream # "None" THEN stream ELSE "None"
    /\ pyaudio' = IF fail /\ stream # "None" THEN pyaudio ELSE "None"
    /\ audio_buffer' = IF fail /\ stream # "None" THEN audio_buffer ELSE <<>>
    /\ lost' = (lost \/ audio_buffer' # audio_buffer)
    /\ UNCHANGED <<cfg_vars, channels, sample_rate, frame_count,
                   total_samples, underrun_count, played, pulls, opens,
                   alsa_vars, pg_vars, sink_writes>>

\* close(); fail: stop_stream/close or terminate raises, which close absorbs
PyAudioClose(fail) ==
    /\ backend = "pyaudio"
    /\ running' = FALSE
    /\ stream' = "None"
    /\ pyaudio' = "None"
    /\ audio_buffer' = <<>>
    /\ lost' = (lost \/ audio_buffer # <<>>)
    /\ UNCHANGED <<cfg_vars, channels, sample_rate, frame_count,
                   total_samples, underrun_count, played, pulls, opens,
                   alsa_vars, pg_vars, sink_writes>>

\* what close returns: None, whatever the backend raised
CloseRet(fail) == "None"

----------------------------------------------------------------------------
(* AlsaAudioDriver *)

AlsaInitFailures == {"none", "PCM", "configure"}

\* a faulty init that sets _running before the device is configured
AlsaInitRunningEarly(rate, fail) ==
    /\ backend = "alsa"
    /\ IF running
       THEN UNCHANGED <<sample_rate, running, pcm, opens>>
       ELSE /\ opens' = opens + 1
            /\ sample_rate' = rate
            /\ pcm' = IF fail = "PCM" THEN pcm ELSE "open"
            /\ running' = (fail # "PCM")
    /\ UNCHANGED <<cfg_vars, channels, frame_count, total_samples, pa_vars,
                   write_errors, volume, written, pg_vars, sink_writes>>

\* init(rate); fail: the PCM constructor raises, or one of setchannels,
\* setrate, setformat, setperiodsize does
AlsaInit(rate, fail) ==
    /\ backend = "alsa"
    /\ IF running
       THEN UNCHANGED <<sample_rate, running, pcm, opens>>
       ELSE /\ opens' = opens + 1
            /\ sample_rate' = rate
            /\ pcm' = IF fail = "PCM" THEN pcm ELSE "open"
            /\ running' = (fail = "none")
    /\ UNCHANGED <<cfg_vars, channels, frame_count, total_samples, pa_vars,
                   write_errors, volume, written, pg_vars, sink_writes>>

AlsaInitRet(fail) ==
    IF running \/ fail = "none" THEN "True" ELSE "False"

\* a faulty play_samples that writes the block again when the device buffer
\* was full
AlsaPlaySamplesRetry(block, wr) ==
    LET samples == block.samples
    IN  /\ backend = "alsa"
        /\ IF ~running \/ pcm = "None" \/ Len(samples) = 0 \/ Raises(block)
           THEN UNCHANGED <<write_errors, sink_writes, frame_count,
                            total_samples, written>>
           ELSE /\ written' = [data |-> AlsaEncode(block, volume, channels,
                                                   use_24bit),
                               calls |-> written.calls
                                           + (IF wr = "full" THEN 2 ELSE 1)]
                /\ write_errors' = IF wr = "full" THEN write_errors + 1
                                   ELSE write_errors
                /\ sink_writes' = IF wr = "error" THEN sink_writes
                                  ELSE sink_writes + 1
                /\ IF wr = "error"
                   THEN UNCHANGED <<frame_count, total_samples>>
                   ELSE /\ frame_count' = frame_count + 1
                        /\ total_samples' = total_samples + Len(samples)
        /\ UNCHANGED <<cfg_vars, channels, sample_rate, running, opens,
                       pa_vars, pcm, volume, pg_vars>>

\* play_samples(block); wr is what the one non-blocking pcm.write does:
\* "ok", "full" (the device buffer is full: ALSAAudioError) or "error" (any
\* other exception, which the outer handler absorbs before the statistics)
AlsaPlaySamples(block, wr) ==
    LET samples == block.samples
    IN  /\ backend = "alsa"
        /\ IF ~running \/ pcm = "None" \/ Len(samples) = 0 \/ Raises(block)
           THEN UNCHANGED <<write_errors, sink_writes, frame_count,
                            total_samples, written>>
           ELSE /\ written' = [data |-> AlsaEncode(block, volume, channels,
                                                   use_24bit),
                               calls |-> written.calls + 1]
                /\ write_errors' = IF wr = "full" THEN write_errors + 1
                                   ELSE write_errors
                /\ sink_writes' = IF wr = "ok" THEN sink_writes + 1
                                  ELSE sink_writes
                /\ IF wr = "error"
                   THEN UNCHANGED <<frame_count, total_samples>>
                   ELSE /\ frame_count' = frame_count + 1
                        /\ total_samples' = total_samples + Len(samples)
        /\ UNCHANGED <<cfg_vars, channels, sample_rate, running, opens,
                       pa_vars, pcm, volume, pg_vars>>

\* close(); fail: pcm.close raises, which close absorbs
AlsaClose(fail) ==
    /\ backend = "alsa"
    /\ running' = FALSE
    /\ pcm' = "None"
    /\ UNCHANGED <<cfg_vars, channels, sample_rate, frame_count,
                   total_samples, opens, pa_vars, write_errors, volume,
                   written, pg_vars, sink_writes>>

----------------------------------------------------------------------------
(* PygameMixerDriver *)

PygameInitFailures == {"none", "mixer.init", "Channel"}

\* init(rate); fail: pygame.mixer.init raises (it is only called when the
\* mixer is not set up yet), or getting the channel does
PygameInit(rate, fail) ==
    /\ backend = "pygame"
    /\ fail = "mixer.init" => (initialized \/ mixer = NoMixer)
    /\ IF initialized
       THEN UNCHANGED <<sample_rate, channels, initialized, channel, mixer,
                        opens>>
       ELSE LET r == EffectiveRate(rate)
                m == IF mixer # NoMixer THEN mixer
                     ELSE IF fail = "mixer.init" THEN NoMixer
                     ELSE <<r, channels>>
            IN  /\ opens' = opens + 1
                /\ mixer' = m
                /\ IF fail = "none"
                   THEN /\ channel' = "Channel0"
                        /\ initialized' = TRUE
                        /\ sample_rate' = m[1]
                        /\ channels' = m[2]
                   ELSE /\ sample_rate' = r
                        /\ UNCHANGED <<channel, initialized, channels>>
    /\ UNCHANGED <<cfg_vars, running, frame_count, total_samples, pa_vars,
                   alsa_vars, sink_writes>>

PygameInitRet(fail) ==
    IF initialized \/ fail = "none" THEN "True" ELSE "False"

\* play_samples(block); busy: the channel is still playing, so the sound
\* is queued behind it
PygamePlaySamples(block, busy) ==
    LET samples == block.samples
    IN  /\ backend = "pygame"
        /\ IF ~initialized \/ channel = "None" \/ Len(samples) = 0
              \/ Raises(block)
           THEN UNCHANGED sink_writes
           ELSE sink_writes' = sink_writes + 1
        /\ UNCHANGED <<cfg_vars, channels, sample_rate, running, frame_count,
                       total_samples, opens, pa_vars, alsa_vars, pg_vars>>

\* close(); fail: channel.stop raises, which close absorbs
PygameClose(fail) ==
    /\ backend = "pygame"
    /\ initialized' = FALSE
    /\ channel' = "None"
    /\ UNCHANGED <<cfg_vars, channels, sample_rate, running, frame_count,
                   total_samples, opens, pa_vars, alsa_vars, mixer,
                   sink_writes>>

----------------------------------------------------------------------------
(* The queue specification: one PyAudio driver, calls not recorded *)

Bounded ==
    /\ frame_count' <= MaxPushes
    /\ pulls' <= MaxPulls
    /\ opens' <= MaxOpens

Step(A) == A /\ Bounded /\ UNCHANGED <<last_call, race_vars>>

Next ==
    \/ \E fail \in PyAudioInitFailures : Step(PyAudioInit(0, fail))
    \/ \E kind \in {"empty", "block"} : Step(PyAudioPlaySamples(BlockOf(kind)))
    \/ \E fc \in FrameCounts : Step(AudioCallback(fc))
    \/ \E fail \in BOOLEAN : Step(PyAudioClose(fail))

Spec == Init /\ [][Next]_vars

----------------------------------------------------------------------------
(* The lifecycle specification: a driver of any of the three classes, every
   call recorded in last_call with its argument, what it returned and the
   call before it *)

LifecycleInit ==
    /\ PyAudioConstruct \/ AlsaConstruct \/ PygameConstruct
    /\ offered = NoOffer

LifecycleBounded ==
    /\ frame_count' <= MaxLifePushes
    /\ sink_writes' <= MaxLifePushes
    /\ written'.calls <= MaxLifePushes
    /\ pulls' <= MaxLifePulls
    /\ opens' <= MaxLifeOpens

Call(A, op, arg, ret) ==
    /\ A
    /\ LifecycleBounded
    /\ last_call' = [op |-> op, arg |-> arg, ret |-> ret,
                     prev |-> last_call.op]
    /\ UNCHANGED race_vars

LifecycleNext ==
    \/ \E rate \in InitRates, fail \in PyAudioInitFailures :
          Call(PyAudioInit(rate, fail), "init", rate, PyAudioInitRet(fail))
    \/ \E kind \in BlockKinds :
          Call(PyAudioPlaySamples(BlockOf(kind)), "play_samples", kind,
               PlaySamplesRet(BlockOf(kind), "ok"))
    \/ \E fc \in FrameCounts :
          Call(AudioCallback(fc), "_audio_callback", fc, "paContinue")
    \/ \E fail \in BOOLEAN :
          Call(PyAudioClose(fail), "close", "none", CloseRet(fail))
    \/ \E rate \in InitRates, fail \in AlsaInitFailures :
          Call(AlsaInit(rate, fail), "init", rate, AlsaInitRet(fail))
    \/ \E kind \in BlockKinds, wr \in AlsaWrites :
          Call(AlsaPlaySamples(BlockOf(kind), wr), "play_samples", kind,
               PlaySamplesRet(BlockOf(kind), wr))
    \/ \E fail \in BOOLEAN :
          Call(AlsaClose(fail), "close", "none", CloseRet(fail))
    \/ \E rate \in InitRates, fail \in PygameInitFailures :
          Call(PygameInit(rate, fail), "init", rate, PygameInitRet(fail))
    \/ \E kind \in BlockKinds, busy \in BOOLEAN :
          Call(PygamePlaySamples(BlockOf(kind), busy), "play_samples", kind,
               PlaySamplesRet(BlockOf(kind), "ok"))
    \/ \E fail \in BOOLEAN :
          Call(PygameClose(fail), "close", "none", CloseRet(fail))

LifecycleSpec == LifecycleInit /\ [][LifecycleNext]_vars

----------------------------------------------------------------------------
(* The thread specification: one PyAudio driver and three threads.  The
   producer runs play_samples, the PortAudio thread runs _audio_callback
   while the stream is running, the control thread runs init and close.
   Every statement that reads or writes shared state is a step of its own;
   pc says where each thread stands. *)

\* what no action of the PyAudio driver's threads touches
race_fixed == <<cfg_vars, channels, alsa_vars, pg_vars, sink_writes,
                last_call>>

drv_vars == <<sample_rate, running, pyaudio, stream, opens>>
stat_vars == <<frame_count, total_samples>>
queue_vars == <<audio_buffer, lost>>
cb_vars == <<underrun_count, played, pulls>>

Goto(t, label) == pc' = [pc EXCEPT ![t] = label]

\* "with self._buffer_lock:" entered without waiting for the lock
AcquireNoWait(t) == buffer_lock' = t

\* "with self._buffer_lock:" entered by thread t: it waits until the lock
\* is free
Acquire(t) == buffer_lock = "free" /\ buffer_lock' = t

\* the end of the with block
Release(t) == buffer_lock' = "free"

(* play_samples, lines 174-204 *)

\* lines 174-189: the two guards and the conversion
PlayCall(kind) ==
    LET block == BlockOf(kind)
    IN  /\ backend = "pyaudio"
        /\ pc["producer"] = "idle"
        /\ frame_count < MaxRacePushes
        /\ IF ~Accepts \/ Len(block.samples) = 0 \/ Raises(block)
           THEN UNCHANGED <<pc, play_local>>
           ELSE /\ play_local' = [data |-> PyAudioEncode(block),
                                  samples |-> Len(block.samples),
                                  len |-> 0]
                /\ Goto("producer", "play_lock")
        /\ UNCHANGED <<race_fixed, drv_vars, stat_vars, queue_vars, cb_vars,
                       buffer_lock, cb_local, ctl_local, device, quiet>>

\* line 191
PlayAcquire ==
    /\ pc["producer"] = "play_lock"
    /\ Acquire("producer")
    /\ Goto("producer", "play_len")
    /\ UNCHANGED <<race_fixed, drv_vars, stat_vars, queue_vars, cb_vars,
                   play_local, cb_local, ctl_local, device, quiet>>

\* line 195: len(self._audio_buffer)
PlayLen ==
    /\ pc["producer"] = "play_len"
    /\ play_local' = [play_local EXCEPT !.len = Len(audio_buffer)]
    /\ Goto("producer", "play_append")
    /\ UNCHANGED <<race_fixed, drv_vars, stat_vars, queue_vars, cb_vars,
                   buffer_lock, cb_local, ctl_local, device, quiet>>

\* lines 195-200 and the end of the with block; popleft on an empty deque
\* raises IndexError, which the handler of line 216 absorbs
PlayAppend ==
    /\ pc["producer"] = "play_append"
    /\ IF play_local.len < max_buffer_items
       THEN /\ audio_buffer' = Append(audio_buffer, play_local.data)
            /\ UNCHANGED lost
            /\ Goto("producer", "play_stats")
       ELSE IF audio_buffer = <<>>
       THEN /\ UNCHANGED queue_vars
            /\ Goto("producer", "idle")
       ELSE /\ audio_buffer' = Append(Tail(audio_buffer), play_local.data)
            /\ lost' = TRUE
            /\ Goto("producer", "play_stats")
    /\ Release("producer")
    /\ UNCHANGED <<race_fixed, drv_vars, stat_vars, cb_vars, play_local,
                   cb_local, ctl_local, device, quiet>>

\* lines 203-204
PlayStats ==
    /\ pc["producer"] = "play_stats"
    /\ frame_count' = frame_count + 1
    /\ total_samples' = total_samples + play_local.samples
    /\ Goto("producer", "idle")
    /\ UNCHANGED <<race_fixed, drv_vars, queue_vars, cb_vars, buffer_lock,
                   play_local, cb_local, ctl_local, device, quiet>>

ProducerRun == PlayAcquire \/ PlayLen \/ PlayAppend \/ PlayStats

(* _audio_callback, lines 71-100 *)

\* lines 71-72: PortAudio calls the callback of a running stream
CbCall(fc) ==
    /\ backend = "pyaudio"
    /\ device = "running"
    /\ pc["callback"] = "idle"
    /\ pulls < MaxRacePulls
    /\ pulls' = pulls + 1
    /\ cb_local' = [n |-> needed_bytes(fc), data |-> <<>>, result |-> <<>>,
                    had |-> 0, iters |-> 0, raised |-> FALSE]
    /\ Goto("callback", "cb_lock")
    /\ UNCHANGED <<race_fixed, drv_vars, stat_vars, queue_vars,
                   underrun_count, played, buffer_lock, play_local,
                   ctl_local, device, quiet>>

\* line 74
CbAcquire ==
    /\ pc["callback"] = "cb_lock"
    /\ Acquire("callback")
    /\ Goto("callback", "cb_test")
    /\ UNCHANGED <<race_fixed, drv_vars, stat_vars, queue_vars, cb_vars,
                   play_local, cb_local, ctl_local, device, quiet>>

\* a faulty test that waits, holding the lock, until there is data
CbTestWaitForData ==
    /\ pc["callback"] = "cb_test"
    /\ audio_buffer # <<>>
    /\ cb_local' = [cb_local EXCEPT !.had = Len(audio_buffer)]
    /\ UNCHANGED underrun_count
    /\ Goto("callback", "cb_loop")
    /\ UNCHANGED <<race_fixed, drv_vars, stat_vars, queue_vars, played,
                   pulls, buffer_lock, play_local, ctl_local, device, quiet>>

\* lines 75-77 and 95-98: is there anything queued
CbTest ==
    /\ pc["callback"] = "cb_test"
    /\ IF audio_buffer # <<>>
       THEN /\ cb_local' = [cb_local EXCEPT !.had = Len(audio_buffer)]
            /\ UNCHANGED underrun_count
            /\ Goto("callback", "cb_loop")
       ELSE /\ cb_local' = [cb_local EXCEPT !.result = Zeros(cb_local.n)]
            /\ underrun_count' = underrun_count + 1
            /\ Goto("callback", "cb_unlock")
    /\ UNCHANGED <<race_fixed, drv_vars, stat_vars, queue_vars, played,
                   pulls, buffer_lock, play_local, ctl_local, device, quiet>>

\* a faulty loop condition that does not test the queue
LoopConditionNoEmptyTest(data, q, n) == Len(data) < n

\* line 80: while len(audio_data) < needed_bytes and self._audio_buffer
LoopCondition(data, q, n) == Len(data) < n /\ q # <<>>

\* lines 81-82: one turn of the loop; popleft on an empty deque raises
\* IndexError, which leaves the with block and the callback
CbLoop ==
    /\ pc["callback"] = "cb_loop"
    /\ LoopCondition(cb_local.data, audio_buffer, cb_local.n)
    /\ IF audio_buffer = <<>>
       THEN /\ cb_local' = [cb_local EXCEPT !.raised = TRUE]
            /\ buffer_lock' = "free"
            /\ UNCHANGED audio_buffer
            /\ Goto("callback", "cb_return")
       ELSE /\ cb_local' = [cb_local EXCEPT
                               !.data = @ \o Head(audio_buffer),
                               !.iters = @ + 1]
            /\ audio_buffer' = Tail(audio_buffer)
            /\ UNCHANGED <<pc, buffer_lock>>
    /\ UNCHANGED <<race_fixed, drv_vars, stat_vars, lost, cb_vars,
                   play_local, ctl_local, device, quiet>>

\* lines 85-94: the loop is over; cut the result, put the rest back or pad
CbSlice ==
    LET data == cb_local.data
        n == cb_local.n
    IN  /\ pc["callback"] = "cb_loop"
        /\ ~LoopCondition(data, audio_buffer, n)
        /\ IF Len(data) >= n
           THEN /\ cb_local' = [cb_local EXCEPT !.result = SubSeq(data, 1, n)]
                /\ audio_buffer' =
                      IF Len(data) > n
                      THEN <<SubSeq(data, n + 1, Len(data))>> \o audio_buffer
                      ELSE audio_buffer
                /\ UNCHANGED underrun_count
           ELSE /\ cb_local' = [cb_local EXCEPT
                                   !.result = data \o Zeros(n - Len(data))]
                /\ underrun_count' = underrun_count + 1
                /\ UNCHANGED audio_buffer
        /\ Goto("callback", "cb_unlock")
        /\ UNCHANGED <<race_fixed, drv_vars, stat_vars, lost, played, pulls,
                       buffer_lock, play_local, ctl_local, device, quiet>>

\* the end of the with block
CbRelease ==
    /\ pc["callback"] = "cb_unlock"
    /\ Release("callback")
    /\ Goto("callback", "cb_return")
    /\ UNCHANGED <<race_fixed, drv_vars, stat_vars, queue_vars, cb_vars,
                   play_local, cb_local, ctl_local, device, quiet>>

\* line 100: the result goes to PortAudio (an exception does instead)
CbReturn ==
    /\ pc["callback"] = "cb_return"
    /\ played' = IF cb_local.raised THEN played
                 ELSE played \o cb_local.result
    /\ Goto("callback", "idle")
    /\ UNCHANGED <<race_fixed, drv_vars, stat_vars, queue_vars,
                   underrun_count, pulls, buffer_lock, play_local, cb_local,
                   ctl_local, device, quiet>>

CallbackRun ==
    CbAcquire \/ CbTest \/ CbLoop \/ CbSlice \/ CbRelease \/ CbReturn

(* init, lines 113-159 *)

\* lines 113-138: up to open(), which starts the stream and with it the
\* callback; PyAudio() or open() raising ends the call in the handler of
\* lines 151-159
InitOpen(rate, fail) ==
    /\ backend = "pyaudio"
    /\ pc["control"] = "idle"
    /\ IF AlreadyRunning
       THEN UNCHANGED <<drv_vars, pc, ctl_local, device, quiet>>
       ELSE /\ opens < MaxRaceOpens
            /\ opens' = opens + 1
            /\ sample_rate' = EffectiveRate(rate)
            /\ quiet' = FALSE
            /\ UNCHANGED running
            /\ IF fail \in {"PyAudio", "open"}
               THEN /\ pyaudio' = IF fail = "PyAudio" THEN pyaudio
                                  ELSE "terminated"
                    /\ stream' = IF stream = "None" THEN "None" ELSE "closed"
                    /\ UNCHANGED <<pc, ctl_local, device>>
               ELSE /\ pyaudio' = "live"
                    /\ stream' = "active"
                    /\ device' = "running"
                    /\ ctl_local' = fail
                    /\ Goto("control", "init_start")
    /\ UNCHANGED <<race_fixed, stat_vars, queue_vars, cb_vars, buffer_lock,
                   play_local, cb_local>>

\* lines 141-142, or the handler of lines 151-159 when start_stream raises:
\* closing the stream returns once its callback is not running
InitStart ==
    /\ pc["control"] = "init_start"
    /\ IF ctl_local = "start_stream"
       THEN /\ pc["callback"] = "idle"
            /\ stream' = "closed"
            /\ pyaudio' = "terminated"
            /\ device' = "stopped"
            /\ UNCHANGED running
       ELSE /\ running' = TRUE
            /\ UNCHANGED <<pyaudio, stream, device>>
    /\ ctl_local' = "none"
    /\ Goto("control", "idle")
    /\ UNCHANGED <<race_fixed, sample_rate, opens, stat_vars, queue_vars,
                   cb_vars, buffer_lock, play_local, cb_local, quiet>>

(* close, lines 226-246 *)

\* what the backend does in a close: nothing raises, stop_stream raises, or
\* terminate does
CloseFaults == {"none", "stop_stream", "terminate"}

\* line 226
CloseBegin(fault) ==
    /\ backend = "pyaudio"
    /\ pc["control"] = "idle"
    /\ running' = FALSE
    /\ ctl_local' = fault
    /\ Goto("control", "close_stream")
    /\ UNCHANGED <<race_fixed, sample_rate, pyaudio, stream, opens,
                   stat_vars, queue_vars, cb_vars, buffer_lock, play_local,
                   cb_local, device, quiet>>

\* a faulty close that drops the stream without stopping it
CloseStreamNoStop ==
    /\ pc["control"] = "close_stream"
    /\ stream' = "None"
    /\ UNCHANGED device
    /\ Goto("control", "close_pyaudio")
    /\ UNCHANGED <<race_fixed, sample_rate, running, pyaudio, opens,
                   stat_vars, queue_vars, cb_vars, buffer_lock, play_local,
                   cb_local, ctl_local, quiet>>

\* lines 228-234: stop_stream returns once the callback is not running and
\* will not be called again; when it raises the stream is left as it is
CloseStream ==
    /\ pc["control"] = "close_stream"
    /\ IF stream = "active" /\ ctl_local # "stop_stream"
       THEN pc["callback"] = "idle" /\ device' = "stopped"
       ELSE UNCHANGED device
    /\ stream' = "None"
    /\ Goto("control", "close_pyaudio")
    /\ UNCHANGED <<race_fixed, sample_rate, running, pyaudio, opens,
                   stat_vars, queue_vars, cb_vars, buffer_lock, play_local,
                   cb_local, ctl_local, quiet>>

\* lines 236-241: terminate closes the streams that are still open
ClosePyAudio ==
    /\ pc["control"] = "close_pyaudio"
    /\ IF pyaudio # "None" /\ ctl_local # "terminate" /\ device = "running"
       THEN pc["callback"] = "idle" /\ device' = "stopped"
       ELSE UNCHANGED device
    /\ pyaudio' = "None"
    /\ Goto("control", "close_lock")
    /\ UNCHANGED <<race_fixed, sample_rate, running, stream, opens,
                   stat_vars, queue_vars, cb_vars, buffer_lock, play_local,
                   cb_local, ctl_local, quiet>>

\* line 243
CloseAcquire ==
    /\ pc["control"] = "close_lock"
    /\ Acquire("control")
    /\ Goto("control", "close_clear")
    /\ UNCHANGED <<race_fixed, drv_vars, stat_vars, queue_vars, cb_vars,
                   play_local, cb_local, ctl_local, device, quiet>>

\* lines 244-246: clear, the end of the with block, return
CloseClear ==
    /\ pc["control"] = "close_clear"
    /\ audio_buffer' = <<>>
    /\ lost' = (lost \/ audio_buffer # <<>>)
    /\ Release("control")
    /\ ctl_local' = "none"
    /\ quiet' = TRUE
    /\ Goto("control", "idle")
    /\ UNCHANGED <<race_fixed, drv_vars, stat_vars, cb_vars, play_local,
                   cb_local, device>>

ControlRun ==
    InitStart \/ CloseStream \/ ClosePyAudio \/ CloseAcquire \/ CloseClear

RaceNext ==
    \/ \E kind \in {"empty", "block"} : PlayCall(kind)
    \/ PlayAcquire
    \/ PlayLen
    \/ PlayAppend
    \/ PlayStats
    \/ \E fc \in RaceFrameCounts : CbCall(fc)
    \/ CbAcquire
    \/ CbTest
    \/ CbLoop
    \/ CbSlice
    \/ CbRelease
    \/ CbReturn
    \/ \E fail \in PyAudioInitFailures : InitOpen(0, fail)
    \/ InitStart
    \/ \E fault \in CloseFaults : CloseBegin(fault)
    \/ CloseStream
    \/ ClosePyAudio
    \/ CloseAcquire
    \/ CloseClear

RaceSpec == Init /\ [][RaceNext]_vars

\* the threads are scheduled: a thread that can take its next step takes
\* it, and a thread waiting for a lock that is free again and again gets it
FairRaceSpec ==
    /\ RaceSpec
    /\ WF_vars(ProducerRun)
    /\ WF_vars(CallbackRun)
    /\ WF_vars(ControlRun)
    /\ SF_vars(PlayAcquire)
    /\ SF_vars(CbAcquire)
    /\ SF_vars(CloseAcquire)

----------------------------------------------------------------------------
(* The conversion specification: a PyAudio or an ALSA driver that is
   initialised and offered one block, drawn from the int16 values around
   zero, around the byte carries and at both ends of the range, and from the
   float32 values -2.0, -1.5, ..., 2.0 and -4, ..., 4 times 2^-23 *)

Int16Samples ==
    (-32768..-32760) \cup (-260..260) \cup (32760..32767)

FloatSamples == (-2 * FloatUnit)..(2 * FloatUnit)

FineSamples == -4..4

ConvBlocks ==
    {[dtype |-> "int16", samples |-> <<x, -1 - x>>] : x \in Int16Samples}
        \cup {[dtype |-> "float32", samples |-> <<h, -h>>] : h \in FloatSamples}
        \cup {[dtype |-> "float32 2^-23", samples |-> <<k, -k>>] :
                  k \in FineSamples}

ConvertInit ==
    /\ PyAudioConstruct \/ AlsaConstruct
    /\ offered \in ConvBlocks

ConvStep(A) ==
    /\ A
    /\ frame_count' <= MaxConvPushes
    /\ UNCHANGED <<last_call, race_vars>>

ConvertNext ==
    \/ ConvStep(PyAudioInit(0, "none"))
    \/ ConvStep(PyAudioPlaySamples(offered))
    \/ \E rate \in AlsaConstructorRates : ConvStep(AlsaInit(rate, "none"))
    \/ ConvStep(AlsaPlaySamples(offered, "ok"))

ConvertSpec == ConvertInit /\ [][ConvertNext]_vars

----------------------------------------------------------------------------
(* Properties of the frame queue, checked under Spec *)

Min(a, b) == IF a < b THEN a ELSE b

\* the bytes of everything pushed so far: the k-th pushed byte is k
Pushed == [i \in 1..(2 * total_samples) |-> i]

\* samples the core has emitted before its k-th block; the k-th frame
RECURSIVE SamplesBefore(_)
SamplesBefore(k) == IF k <= 1 THEN 0 ELSE SamplesBefore(k - 1) + BlockLen(k - 1)

FrameBytes(k) == tobytes(SourceBlock(SamplesBefore(k) + 1, BlockLen(k)))

\* C1: the frame queue never holds more than max_buffer_items (15) entries,
\* whatever the order of pushes, pulls (with their re-inserted remainder)
\* and closes.
C1_QueueBound ==
    /\ Len(audio_buffer) >= 0
    /\ Len(audio_buffer) <= max_buffer_items

\* a full queue after an eviction whose front entry is a 3-byte remainder
\* that a pull put back
C1_Witness ==
    /\ Len(audio_buffer) = max_buffer_items
    /\ lost
    /\ pulls > 0
    /\ Len(Head(audio_buffer)) = 3

\* C2: a play_samples call that a running driver serves appends the new
\* frame at the back; below 15 entries nothing is removed, at 15 entries
\* exactly the front entry goes and the others keep their order.  After 16
\* pushes and no pull the queue holds frames 2..16 in order.
C2_Step ==
    (PyAudioPlaySamples(CoreBlock) /\ Accepts) =>
        LET data == tobytes(NextBlock)
            q == audio_buffer
        IN  IF Len(q) < max_buffer_items
            THEN /\ Len(audio_buffer') = Len(q) + 1
                 /\ SubSeq(audio_buffer', 1, Len(q)) = q
                 /\ audio_buffer'[Len(q) + 1] = data
            ELSE /\ Len(audio_buffer') = max_buffer_items
                 /\ \A i \in 1..(max_buffer_items - 1) :
                        audio_buffer'[i] = q[i + 1]
                 /\ audio_buffer'[max_buffer_items] = data

C2_SixteenPushes ==
    (frame_count = max_buffer_items + 1 /\ pulls = 0
        /\ Len(audio_buffer) = max_buffer_items)
    => audio_buffer = [i \in 1..max_buffer_items |-> FrameBytes(i + 1)]

C2_DropOldest == [][C2_Step]_vars /\ []C2_SixteenPushes

\* sixteen frames pushed, none pulled
C2_Witness ==
    /\ frame_count = max_buffer_items + 1
    /\ pulls = 0
    /\ lost
    /\ Len(audio_buffer) = max_buffer_items
    /\ running

\* what a pull of frame_count fc does in the current state
PullNow(fc) == Pull(audio_buffer, needed_bytes(fc), underrun_count)

\* C3: for every queue content and every frame_count the callback returns
\* exactly needed_bytes bytes with paContinue: the first min(n, queued) bytes
\* of the queued frames in queue order, then zero bytes up to n.
C3_PullResult ==
    \A fc \in FrameCounts :
        LET n == needed_bytes(fc)
            all == Flatten(audio_buffer)
            out == PullNow(fc)
        IN  /\ Len(out.result) = n
            /\ out.status = "paContinue"
            /\ out.result = Take(all, n) \o Zeros(n - Min(n, Len(all)))

\* a pull has returned queued data followed by silence, and frames have been
\* queued again since
C3_Witness ==
    /\ pulls > 0
    /\ underrun_count > 0
    /\ Len(played) > 1
    /\ played[1] # 0
    /\ played[Len(played)] = 0
    /\ Len(audio_buffer) > 1

\* the entry of q that a pull of n bytes stops inside: j with
\* bytes(q[1..j-1]) < n < bytes(q[1..j]); 0 when it stops between entries or
\* runs out of queue
Before(q, j) == Len(Flatten(SubSeq(q, 1, j - 1)))

SplitEntry(q, n) ==
    IF \E j \in 1..Len(q) : Before(q, j) < n /\ n < Before(q, j + 1)
    THEN CHOOSE j \in 1..Len(q) : Before(q, j) < n /\ n < Before(q, j + 1)
    ELSE 0

\* C4: after a pull of n bytes, the bytes left in the queue are the bytes
\* queued before with the first min(n, total) removed; when the last entry
\* popped is only partly consumed its unused suffix is the new front entry,
\* and the next pull returns that suffix first.
C4_Remainder ==
    \A fc \in FrameCounts :
        LET n == needed_bytes(fc)
            q == audio_buffer
            all == Flatten(q)
            out == PullNow(fc)
            j == SplitEntry(q, n)
        IN  /\ Flatten(out.q) = Drop(all, Min(n, Len(all)))
            /\ j > 0 =>
                LET rem == SubSeq(q[j], n - Before(q, j) + 1, Len(q[j]))
                IN  /\ out.q = <<rem>> \o SubSeq(q, j + 1, Len(q))
                    /\ \A fc2 \in FrameCounts :
                          LET n2 == needed_bytes(fc2)
                              next == Pull(out.q, n2, out.underrun)
                          IN  Take(next.result, Len(rem)) = Take(rem, n2)

\* two 2-byte pulls of a 4-byte frame: the second returned the remainder of
\* the first
C4_Witness ==
    /\ pulls = 2
    /\ channels = 1
    /\ ~use_24bit
    /\ played = <<1, 2, 3, 4>>
    /\ audio_buffer # <<>>

\* C5: a pull on an empty queue returns needed_bytes zero bytes, adds exactly
\* one to the underrun counter and leaves the queue empty.
C5_Step ==
    \A fc \in FrameCounts :
        (AudioCallback(fc) /\ audio_buffer = <<>>) =>
            /\ played' = played \o Zeros(needed_bytes(fc))
            /\ underrun_count' = underrun_count + 1
            /\ audio_buffer' = <<>>

C5_EmptyUnderrun == [][C5_Step]_vars

\* the only pull so far found the queue empty and returned silence
C5_Witness ==
    /\ pulls = 1
    /\ underrun_count = 1
    /\ played # <<>>
    /\ played = Zeros(Len(played))
    /\ audio_buffer = <<>>
    /\ frame_count = 0

\* the bytes of s that are data, not silence
DataBytes(s) == SelectSeq(s, LAMBDA b : b # 0)

StrictlyIncreasing(s) == \A i \in 1..(Len(s) - 1) : s[i] < s[i + 1]

\* C6: the data bytes the callback has delivered are, in delivery order, a
\* subsequence of the pushed byte stream: each is a pushed byte, none is
\* delivered twice and none before an earlier one (the k-th pushed byte has
\* the value k, so this is: strictly increasing, within 1..pushed).
C6_Ordering ==
    LET data == DataBytes(played)
    IN  /\ StrictlyIncreasing(data)
        /\ \A i \in 1..Len(data) : data[i] \in 1..Len(Pushed)

\* data, then silence of an underrun, then data again after an eviction
C6_Witness ==
    /\ lost
    /\ frame_count > max_buffer_items
    /\ underrun_count > 0
    /\ pulls = 2
    /\ \E i, j, k \in 1..Len(played) :
          i < j /\ j < k /\ played[i] # 0 /\ played[j] = 0 /\ played[k] # 0

\* C7: while no frame has been evicted or cleared and no pull has recorded
\* an underrun, what the callback has returned followed by what is still
\* queued is exactly the pushed byte stream (so the output is a prefix of
\* it).
C7_Lossless ==
    (~lost /\ underrun_count = 0) =>
        /\ played \o Flatten(audio_buffer) = Pushed
        /\ played = Take(Pushed, Len(played))

\* fifteen frames pushed, two pulls served, nothing lost, data left
C7_Witness ==
    /\ ~lost
    /\ underrun_count = 0
    /\ pulls = 2
    /\ frame_count >= max_buffer_items
    /\ Len(played) >= 4
    /\ audio_buffer # <<>>

----------------------------------------------------------------------------
(* Properties of the lifecycle, checked under LifecycleSpec *)

\* the driver is Running: init has succeeded and close has not been called
IsRunning == IF backend = "pygame" THEN initialized ELSE running

\* C8: play_samples on a driver that is not Running (never initialized, init
\* failed, or closed) returns None and changes nothing: not the queue, not
\* what the backend has been handed, not a counter.
C8_Step ==
    (last_call'.op = "play_samples" /\ ~IsRunning) =>
        /\ last_call'.ret = "None"
        /\ UNCHANGED state_vars

C8_PlayWhenNotRunning == [][C8_Step]_vars

\* a block was offered to a PyAudio driver whose init had failed in
\* start_stream, leaving a closed stream object behind
C8_Witness ==
    /\ last_call.op = "play_samples"
    /\ last_call.arg = "block"
    /\ last_call.prev = "init"
    /\ backend = "pyaudio"
    /\ ~running
    /\ stream = "closed"

\* C9: init on a Running driver returns True and changes nothing, whatever
\* rate it is given: the effective rate and channels, the backend handles,
\* the queue and the counters stay, and the backend is not opened again.
C9_Step ==
    (last_call'.op = "init" /\ IsRunning) =>
        /\ last_call'.ret = "True"
        /\ UNCHANGED state_vars

C9_InitWhenRunning == [][C9_Step]_vars

\* init(50000) returned True on a PyAudio driver that runs at 44100 with a
\* frame queued
C9_Witness ==
    /\ last_call.op = "init"
    /\ last_call.arg = 50000
    /\ last_call.ret = "True"
    /\ backend = "pyaudio"
    /\ running
    /\ sample_rate = DefaultRate
    /\ opens = 1
    /\ audio_buffer # <<>>

\* C10: close returns None in every state, whatever the backend raises, and
\* leaves the driver not running, without a backend handle and (PyAudio)
\* with an empty queue; a close that follows a close changes nothing.
C10_Step ==
    /\ last_call'.op = "close" =>
          /\ last_call'.ret = "None"
          /\ ~IsRunning'
          /\ pyaudio' = "None"
          /\ stream' = "None"
          /\ pcm' = "None"
          /\ channel' = "None"
          /\ audio_buffer' = <<>>
    /\ (last_call.op = "close" /\ last_call'.op = "close") =>
          UNCHANGED state_vars

C10_CloseIdempotent == [][C10_Step]_vars

\* two closes in a row on a PyAudio driver that had frames queued
C10_Witness ==
    /\ last_call.op = "close"
    /\ last_call.prev = "close"
    /\ backend = "pyaudio"
    /\ frame_count > 0
    /\ lost

\* an init step of a driver that is not Running in which the backend raises,
\* and one in which it does not
InitStep(pa, al, pg) ==
    \E rate \in InitRates :
        \/ \E fail \in pa : PyAudioInit(rate, fail)
        \/ \E fail \in al : AlsaInit(rate, fail)
        \/ \E fail \in pg : PygameInit(rate, fail)

FailingInit ==
    /\ ~IsRunning
    /\ last_call'.op = "init"
    /\ InitStep(PyAudioInitFailures \ {"none"}, AlsaInitFailures \ {"none"},
                PygameInitFailures \ {"none"})

SucceedingInit ==
    /\ ~IsRunning
    /\ last_call'.op = "init"
    /\ InitStep({"none"}, {"none"}, {"none"})

\* C12: when the backend raises at any step of init, init returns False and
\* the driver is not Running; init returns False in no other case; a
\* play_samples call that follows changes nothing; and an init call on a
\* driver that is not Running goes to the backend again and, when the
\* backend does not raise, returns True and leaves the driver Running.
C12_Step ==
    /\ FailingInit => (last_call'.ret = "False" /\ ~IsRunning')
    /\ (last_call'.op = "init" /\ last_call'.ret = "False") =>
          (FailingInit /\ ~IsRunning')
    /\ (last_call.op = "init" /\ last_call.ret = "False"
            /\ last_call'.op = "play_samples") =>
          UNCHANGED state_vars
    /\ (last_call'.op = "init" /\ ~IsRunning) => opens' = opens + 1
    /\ SucceedingInit => (last_call'.ret = "True" /\ IsRunning')

C12_FailedInit == [][C12_Step]_vars

\* an ALSA driver whose first init failed while the device was being
\* configured, leaving the PCM object behind, and whose second init
\* succeeded
C12_Witness ==
    /\ backend = "alsa"
    /\ last_call.op = "init"
    /\ last_call.prev = "init"
    /\ last_call.ret = "True"
    /\ opens = 2
    /\ running
    /\ pcm = "open"

\* C13: a play_samples call on a Running ALSA driver calls pcm.write at most
\* once; when that write fails because the device buffer is full the
\* dropped-write counter grows by exactly one, nothing is handed to the
\* device (no second write), the call returns None and the driver stays
\* Running; when the write succeeds the counter is unchanged.
C13_Step ==
    (backend = "alsa" /\ running /\ last_call'.op = "play_samples") =>
        /\ written'.calls <= written.calls + 1
        /\ last_call'.ret = "None"
        /\ running'
        /\ pcm' = pcm
        /\ AlsaPlaySamples(CoreBlock, "full") =>
              /\ write_errors' = write_errors + 1
              /\ written'.calls = written.calls + 1
              /\ sink_writes' = sink_writes
        /\ AlsaPlaySamples(CoreBlock, "ok") =>
              /\ write_errors' = write_errors
              /\ sink_writes' = sink_writes + 1
        /\ write_errors' \in {write_errors, write_errors + 1}

C13_WouldBlock == [][C13_Step]_vars

\* a Running ALSA driver after one write that found the buffer full and
\* one that succeeded
C13_Witness ==
    /\ backend = "alsa"
    /\ running
    /\ last_call.op = "play_samples"
    /\ last_call.prev = "play_samples"
    /\ write_errors = 1
    /\ sink_writes = 1
    /\ written.calls = 2
    /\ frame_count = 2

\* a play_samples step on a Running driver in which something raises: the
\* conversion of the block, or the write to the ALSA device with an
\* exception other than the device's own
RaisingPlay ==
    /\ IsRunning
    /\ last_call'.op = "play_samples"
    /\ \/ last_call'.arg = "bad"
       \/ backend = "alsa" /\ AlsaPlaySamples(CoreBlock, "error")

\* C14: when the conversion or the write of a block raises inside
\* play_samples, the call returns None, the driver stays Running and the
\* block is dropped: the queue, what the device has accepted and the
\* statistics are as before; a valid block offered next is accepted.
C14_Step ==
    /\ RaisingPlay =>
          /\ last_call'.ret = "None"
          /\ IsRunning'
          /\ audio_buffer' = audio_buffer
          /\ sink_writes' = sink_writes
          /\ write_errors' = write_errors
          /\ frame_count' = frame_count
          /\ total_samples' = total_samples
    /\ (IsRunning /\ last_call.op = "play_samples" /\ last_call.arg = "bad"
            /\ last_call'.op = "play_samples" /\ last_call'.arg = "block") =>
          /\ backend = "pyaudio" =>
                /\ audio_buffer'
                      = Enqueue(audio_buffer, PyAudioEncode(CoreBlock))
                /\ frame_count' = frame_count + 1
          /\ backend = "alsa" => written'.calls = written.calls + 1
          /\ backend = "pygame" => sink_writes' = sink_writes + 1

C14_ErrorsAbsorbed == [][C14_Step]_vars

\* a Running PyAudio driver with one frame queued has just been offered a
\* block that cannot be converted
C14_Witness ==
    /\ backend = "pyaudio"
    /\ running
    /\ last_call.op = "play_samples"
    /\ last_call.arg = "bad"
    /\ last_call.prev = "play_samples"
    /\ Len(audio_buffer) = 1
    /\ frame_count = 1

----------------------------------------------------------------------------
(* Properties of the input contract, checked under Spec *)

\* C16: a block whose sample count is not a multiple of the channel count
\* is dropped by play_samples: nothing of it is queued and the call returns
\* normally.  (The PyAudio driver queues every non-empty block as it is:
\* with two channels the core's one-sample block is queued.)
C16_Step ==
    (PyAudioPlaySamples(CoreBlock) /\ Accepts
        /\ Len(CoreBlock.samples) % channels # 0) =>
        /\ audio_buffer' = audio_buffer
        /\ frame_count' = frame_count

C16_PartialFrameDropped == [][C16_Step]_vars

----------------------------------------------------------------------------
(* Properties of the conversion, checked under ConvertSpec *)

\* the reference encoding of an int16 block: two's complement, low byte
\* first, sample after sample
LittleEndian16(samples) ==
    [i \in 1..(2 * Len(samples)) |->
        LET u == samples[(i + 1) \div 2] % 65536
        IN  IF i % 2 = 1 THEN u % 256 ELSE u \div 256]

\* the int16 values that a sequence of bytes holds
Decode16(bytes) ==
    [i \in 1..(Len(bytes) \div 2) |->
        LET u == bytes[2 * i - 1] + 256 * bytes[2 * i]
        IN  IF u >= 32768 THEN u - 65536 ELSE u]

\* the bytes the driver has handed on: the frame it queued (PyAudio), the
\* bytes of its write (ALSA); <<>> when it has handed on nothing
HandedOn ==
    IF backend = "pyaudio"
    THEN (IF audio_buffer = <<>> THEN <<>> ELSE audio_buffer[Len(audio_buffer)])
    ELSE written.data

\* C19: for an int16 block, a 16-bit output format, one channel and volume
\* 1.0, the bytes that play_samples hands to the queue (PyAudio) or to the
\* device (ALSA) are the little-endian bytes of the input samples.  (The
\* ALSA driver divides by 32768 and multiplies by 32767: every sample but 0
\* comes out one step nearer to zero.)
C19_Passthrough ==
    (offered.dtype = "int16" /\ ~use_24bit
        /\ channels = 1 /\ volume = VolumeUnit /\ frame_count > 0) =>
        HandedOn = LittleEndian16(offered.samples)

\* C20: for a 16-bit output format and no attenuation, a float32 sample above
\* 1.0 comes out as exactly 32767 and one below -1.0 as exactly -32767.
\* (The PyAudio driver casts float32 to int16 without scaling or clamping:
\* 1.5 comes out as 1.)
C20_Clamping ==
    (offered.dtype = "float32" /\ ~use_24bit
        /\ channels = 1 /\ volume = VolumeUnit /\ frame_count > 0) =>
        LET out == Decode16(HandedOn)
        IN  /\ Len(out) = Len(offered.samples)
            /\ \A i \in 1..Len(out) :
                  /\ offered.samples[i] > FloatUnit => out[i] = 32767
                  /\ offered.samples[i] < -FloatUnit => out[i] = -32767

----------------------------------------------------------------------------
(* Properties of the threads, checked under RaceSpec and FairRaceSpec *)

\* C11: close may run while a callback is in flight, and once close has
\* returned (and until init is called again) the callback is not running and
\* is not called: the stream is stopped, no step of the callback thread
\* happens, and the underrun counter and the bytes played stay as they are.
C11_Quiet == quiet => (pc["callback"] = "idle" /\ device = "stopped")

C11_Step ==
    quiet =>
        /\ pc'["callback"] = "idle"
        /\ cb_local' = cb_local
        /\ underrun_count' = underrun_count
        /\ played' = played
        /\ pulls' = pulls

C15_Inv ==
    pc["callback"] # "idle" =>
        /\ ~cb_local.raised
        /\ pc["callback"] = "cb_return" => buffer_lock # "callback"

C15_Step ==
    (pc["callback"] = "cb_return" /\ pc'["callback"] = "idle") =>
        /\ Len(cb_local.result) = cb_local.n
        /\ played' = played \o cb_local.result
        /\ buffer_lock' # "callback"

CriticalLabels ==
    {"play_len", "play_append", "cb_test", "cb_loop", "cb_unlock",
     "close_clear"}

InCritical(t) == pc[t] \in CriticalLabels

\* thread t takes the step
Moves(t) ==
    \/ pc'[t] # pc[t]
    \/ t = "callback" /\ cb_local' # cb_local
    \/ t = "producer" /\ play_local' # play_local

\* C17: at most one thread is inside a section guarded by the buffer lock,
\* and it is the holder of the lock; the queue and the underrun counter
\* change only in a step of the holder; and between the producer's length
\* test and its append the length of the queue does not change.
C17_Inv ==
    /\ Cardinality({t \in Threads : InCritical(t)}) <= 1
    /\ \A t \in Threads : InCritical(t) <=> buffer_lock = t
    /\ pc["producer"] = "play_append" => play_local.len = Len(audio_buffer)

C17_Step ==
    (audio_buffer' # audio_buffer \/ underrun_count' # underrun_count) =>
        /\ buffer_lock \in Threads
        /\ InCritical(buffer_lock)
        /\ \A t \in Threads : Moves(t) <=> t = buffer_lock

C17_MutualExclusion == []C17_Inv /\ [][C17_Step]_vars

\* the callback waits for the lock that the producer holds between its
\* length test and its append
C17_Witness ==
    /\ pc["producer"] = "play_append"
    /\ pc["callback"] = "cb_lock"
    /\ buffer_lock = "producer"

\* C18: under fair scheduling every play_samples call and every callback
\* invocation returns; inside the lock neither waits for anything (a thread
\* past its acquire can always take its next step, whatever the queue
\* holds); a thread waiting for the lock waits for a holder that can move;
\* the loop of the callback takes at most as many turns as there were
\* entries queued; and no state has a thread in flight and none able to
\* move.
C18_Inv ==
    /\ pc["producer"] \in {"play_len", "play_append", "play_stats"} =>
          ENABLED ProducerRun
    /\ pc["callback"] \in {"cb_test", "cb_loop", "cb_unlock", "cb_return"} =>
          ENABLED CallbackRun
    /\ (pc["producer"] = "play_lock" \/ pc["callback"] = "cb_lock") =>
          ENABLED (ProducerRun \/ CallbackRun \/ ControlRun)
    /\ (\E t \in Threads : pc[t] # "idle") =>
          ENABLED (ProducerRun \/ CallbackRun \/ ControlRun)
    /\ pc["callback"] \in {"cb_loop", "cb_unlock", "cb_return"} =>
          cb_local.iters <= cb_local.had

----------------------------------------------------------------------------
(* Properties of the 24-bit path of the ALSA driver, checked under
   ConvertSpec *)

\* ALSA line 183: samples_int32, the values the packing loop is given
SamplesInt32 ==
    LET f == AlsaChannels(AlsaFloat(offered, volume), channels)
    IN  [i \in 1..Len(f) |-> Scale(f[i], 8388607)]

\* the reference unpacker: three bytes, low byte first, two's complement
Decode24(bytes) ==
    [i \in 1..(Len(bytes) \div 3) |->
        LET u == bytes[3 * i - 2] + 256 * bytes[3 * i - 1]
                     + 65536 * bytes[3 * i]
        IN  IF u >= 8388608 THEN u - 16777216 ELSE u]

\* C21: on the 24-bit path of the ALSA driver every value handed to the
\* packing loop lies in the signed 24-bit range and comes out as exactly three
\* bytes, each in 0..255, that the reference unpacker decodes back to the
\* value; -1 is written as FF FF FF.
C21_PackingRoundTrip ==
    (backend = "alsa" /\ use_24bit /\ written.calls > 0) =>
        /\ Len(written.data) = 3 * Len(SamplesInt32)
        /\ \A i \in 1..Len(written.data) : written.data[i] \in 0..255
        /\ Decode24(written.data) = SamplesInt32
        /\ \A i \in 1..Len(SamplesInt32) :
              /\ SamplesInt32[i] \in -8388608..8388607
              /\ SamplesInt32[i] = -1 =>
                    SubSeq(written.data, 3 * i - 2, 3 * i) = <<255, 255, 255>>

\* the float32 block <<-2^-22, 2^-22>> at full volume: the first value
\* packed is -1, written as FF FF FF, the second is 1
C21_Witness ==
    /\ backend = "alsa"
    /\ use_24bit
    /\ written.calls > 0
    /\ channels = 1
    /\ SamplesInt32 = <<-1, 1>>
    /\ written.data = <<255, 255, 255, 1, 0, 0>>

----------------------------------------------------------------------------
(* Properties of the underrun counter, checked under Spec *)

\* the bytes queued, over all entries
QueuedBytes == Len(Flatten(audio_buffer))

\* C22: a pull of n bytes adds exactly one to the underrun counter when
\* fewer than n bytes are queued at its start and leaves the counter as it is
\* otherwise, a pull of 0 bytes included; no step lowers the counter.  (The
\* callback tests the queue for emptiness before it looks at n: a pull of 0
\* bytes on an empty queue is counted as an underrun.)
C22_Step ==
    /\ underrun_count' >= underrun_count
    /\ \A fc \in FrameCounts :
          AudioCallback(fc) =>
              underrun_count' =
                  IF QueuedBytes < needed_bytes(fc)
                  THEN underrun_count + 1
                  ELSE underrun_count

C22_ExactUnderruns == [][C22_Step]_vars

----------------------------------------------------------------------------
(* Properties of the encoding of the PyAudio driver, checked under Spec *)

\* the bytes of one sink frame, as the callback counts them
SinkFrameBytes == channels * bytes_per_sample

\* C23: with one channel (every block of the core is then whole frames), a
\* frame that play_samples queues for a block of S samples holds S times the
\* bytes per sample the callback counts with (2, or 3 when use_24bit is set):
\* pulls of S sink frames consume it; and every entry of the queue, the
\* remainder a pull has put back included, is a whole number of sink frames,
\* so that every pull starts on a frame boundary of what was pushed.  (The
\* driver queues int16 bytes, 2 per sample, whatever use_24bit is.)
C23_Inv ==
    channels = 1 =>
        \A i \in 1..Len(audio_buffer) :
            Len(audio_buffer[i]) % SinkFrameBytes = 0

C23_Step ==
    (channels = 1 /\ PyAudioPlaySamples(CoreBlock)
        /\ frame_count' = frame_count + 1) =>
        Len(audio_buffer'[Len(audio_buffer')]) =
            Len(CoreBlock.samples) * bytes_per_sample

C23_EncodingConsistency == []C23_Inv /\ [][C23_Step]_vars

----------------------------------------------------------------------------
(* Properties of close and a play_samples call in flight, checked under
   RaceSpec *)

\* C24: once close has returned and the play_samples call that was in flight
\* has returned too, the queue is empty, and it stays empty for as long as
\* init has not been called again.  (A play_samples call that has passed its
\* test of _running before close sets it appends its frame after close has
\* cleared the queue.)
C24_StaysCleared ==
    (quiet /\ ~running /\ pc["control"] = "idle" /\ pc["producer"] = "idle")
        => audio_buffer = <<>>

====
